---- MODULE Spec2Model ----
(***************************************************************************)
(* A model of kamerstuk.py: the document-type classifier, the paginated    *)
(* SRU fetch, the field extraction and the memoizing lookup with its       *)
(* persistent cache file.                                                  *)
(*                                                                         *)
(* Python strings are modelled as sequences of one-character strings, so   *)
(* that lower(), replace(), split(), startswith(), endswith(), "in" and    *)
(* the whitespace regex act on characters as they do in the program.       *)
(***************************************************************************)
EXTENDS Integers, Sequences, FiniteSets, TLC

(***************************************************************************)
(* Python's None, and the str methods the program uses.                    *)
(***************************************************************************)
None == <<"None">>

ascii_uppercase == <<"A","B","C","D","E","F","G","H","I","J","K","L","M","N","O","P","Q","R","S","T","U","V","W","X","Y","Z">>

ascii_lowercase == <<"a","b","c","d","e","f","g","h","i","j","k","l","m","n","o","p","q","r","s","t","u","v","w","x","y","z">>

\* str.lower() on one character
lower_char(c) ==
    IF \E k \in DOMAIN ascii_uppercase : ascii_uppercase[k] = c
    THEN ascii_lowercase[CHOOSE k \in DOMAIN ascii_uppercase : ascii_uppercase[k] = c]
    ELSE c

\* str.lower()
str_lower(s) == [i \in 1..Len(s) |-> lower_char(s[i])]

\* str.replace(old, new) for one-character old and new
str_replace(s, old, new) == [i \in 1..Len(s) |-> IF s[i] = old THEN new ELSE s[i]]

\* str.startswith(prefix)
startswith(s, prefix) ==
    /\ Len(prefix) <= Len(s)
    /\ SubSeq(s, 1, Len(prefix)) = prefix

\* str.endswith(suffix)
endswith(s, suffix) ==
    /\ Len(suffix) <= Len(s)
    /\ SubSeq(s, Len(s) - Len(suffix) + 1, Len(s)) = suffix

\* "sub in s"
str_contains(s, sub) ==
    \E i \in 1..(Len(s) - Len(sub) + 1) : SubSeq(s, i, i + Len(sub) - 1) = sub

\* str.find(sub), 1-based; 0 when sub does not occur
str_find(s, sub) ==
    IF str_contains(s, sub)
    THEN CHOOSE i \in 1..(Len(s) - Len(sub) + 1) :
            /\ SubSeq(s, i, i + Len(sub) - 1) = sub
            /\ \A j \in 1..(i - 1) : SubSeq(s, j, j + Len(sub) - 1) # sub
    ELSE 0

\* str.split(sep) for a non-empty separator
RECURSIVE str_split(_, _)
str_split(s, sep) ==
    LET i == str_find(s, sep)
    IN  IF i = 0
        THEN <<s>>
        ELSE <<SubSeq(s, 1, i - 1)>> \o str_split(SubSeq(s, i + Len(sep), Len(s)), sep)

(***************************************************************************)
(* class KamerstukType: member name |-> value (the display string).        *)
(***************************************************************************)
KamerstukType ==
    [ KONINKLIJKE_BOODSCHAP |-> <<"K","o","n","i","n","k","l","i","j","k","e"," ","b","o","o","d","s","c","h","a","p">>,
      GELEIDENDE_BRIEF |-> <<"G","e","l","e","i","d","e","n","d","e"," ","b","r","i","e","f">>,
      WETSVOORSTEL |-> <<"V","o","o","r","s","t","e","l"," ","v","a","n"," ","w","e","t">>,
      MEMORIE_VAN_TOELICHTING |-> <<"M","e","m","o","r","i","e"," ","v","a","n"," ","t","o","e","l","i","c","h","t","i","n","g">>,
      ADVIES_RVS |-> <<"A","d","v","i","e","s"," ","R","a","a","d"," ","v","a","n"," ","S","t","a","t","e">>,
      VOORLICHTING_RVS |-> <<"V","o","o","r","l","i","c","h","t","i","n","g"," ","v","a","n"," ","d","e"," ","A","f","d","e","l","i","n","g"," ","a","d","v","i","s","e","r","i","n","g"," ","v","a","n"," ","d","e"," ","R","a","a","d"," ","v","a","n"," ","S","t","a","t","e">>,
      VERSLAG |-> <<"V","e","r","s","l","a","g">>,
      NOTA_NA_VERSLAG |-> <<"N","o","t","a"," ","n","a","a","r"," ","a","a","n","l","e","i","d","i","n","g"," ","v","a","n"," ","h","e","t"," ","v","e","r","s","l","a","g">>,
      NOTA_VAN_WIJZIGING |-> <<"N","o","t","a"," ","v","a","n"," ","w","i","j","z","i","g","i","n","g">>,
      MEMORIE_VAN_ANTWOORD |-> <<"M","e","m","o","r","i","e"," ","v","a","n"," ","a","n","t","w","o","o","r","d">>,
      AMENDEMENT |-> <<"A","m","e","n","d","e","m","e","n","t">>,
      MOTIE |-> <<"M","o","t","i","e">>,
      BRIEF |-> <<"B","r","i","e","f">>,
      JAARVERSLAG |-> <<"J","a","a","r","v","e","r","s","l","a","g">>,
      ONBEKEND |-> <<"O","n","b","e","k","e","n","d">> ]

lit ==
    [ brief |-> <<"b","r","i","e","f">>,
      koninklijke_boodschap |-> <<"k","o","n","i","n","k","l","i","j","k","e"," ","b","o","o","d","s","c","h","a","p">>,
      motie |-> <<"m","o","t","i","e">>,
      gewijzigde_motie |-> <<"g","e","w","i","j","z","i","g","d","e"," ","m","o","t","i","e">>,
      amendement |-> <<"a","m","e","n","d","e","m","e","n","t">>,
      gewijzigd_amendement |-> <<"g","e","w","i","j","z","i","g","d"," ","a","m","e","n","d","e","m","e","n","t">>,
      voorstel_van_wet |-> <<"v","o","o","r","s","t","e","l"," ","v","a","n"," ","w","e","t">>,
      gewijzigd_voorstel_van_wet |-> <<"g","e","w","i","j","z","i","g","d"," ","v","o","o","r","s","t","e","l"," ","v","a","n"," ","w","e","t">>,
      ontwerp_van_wet |-> <<"o","n","t","w","e","r","p"," ","v","a","n"," ","w","e","t">>,
      advies_afdeling_advisering_raad_van_state |-> <<"a","d","v","i","e","s"," ","a","f","d","e","l","i","n","g"," ","a","d","v","i","s","e","r","i","n","g"," ","r","a","a","d"," ","v","a","n"," ","s","t","a","t","e">>,
      advies_raad_van_state |-> <<"a","d","v","i","e","s"," ","r","a","a","d"," ","v","a","n"," ","s","t","a","t","e">>,
      voorlopig_verslag |-> <<"v","o","o","r","l","o","p","i","g"," ","v","e","r","s","l","a","g">>,
      verslag |-> <<"v","e","r","s","l","a","g">>,
      eindverslag |-> <<"e","i","n","d","v","e","r","s","l","a","g">>,
      nader_voorlopig_verslag |-> <<"n","a","d","e","r"," ","v","o","o","r","l","o","p","i","g"," ","v","e","r","s","l","a","g">>,
      nota_naar_aanleiding_van_het |-> <<"n","o","t","a"," ","n","a","a","r"," ","a","a","n","l","e","i","d","i","n","g"," ","v","a","n"," ","h","e","t">>,
      memorie_van_toelichting |-> <<"m","e","m","o","r","i","e"," ","v","a","n"," ","t","o","e","l","i","c","h","t","i","n","g">>,
      memorie_van_antwoord |-> <<"m","e","m","o","r","i","e"," ","v","a","n"," ","a","n","t","w","o","o","r","d">>,
      nadere_memorie_van_antwoord |-> <<"n","a","d","e","r","e"," ","m","e","m","o","r","i","e"," ","v","a","n"," ","a","n","t","w","o","o","r","d">>,
      voorlichting_van_de_afdeling_advisering_van_de_raad_van_state |-> <<"v","o","o","r","l","i","c","h","t","i","n","g"," ","v","a","n"," ","d","e"," ","a","f","d","e","l","i","n","g"," ","a","d","v","i","s","e","r","i","n","g"," ","v","a","n"," ","d","e"," ","r","a","a","d"," ","v","a","n"," ","s","t","a","t","e">>,
      jaarverslag |-> <<"j","a","a","r","v","e","r","s","l","a","g">>,
      nota_van_wijziging |-> <<"n","o","t","a"," ","v","a","n"," ","w","i","j","z","i","g","i","n","g">> ]

hintlit ==
    [ Brief |-> <<"B","r","i","e","f">>,
      Amendement |-> <<"A","m","e","n","d","e","m","e","n","t">>,
      Motie |-> <<"M","o","t","i","e">>,
      Voorstel_van_wet |-> <<"V","o","o","r","s","t","e","l"," ","v","a","n"," ","w","e","t">>,
      Koninklijke_boodschap |-> <<"K","o","n","i","n","k","l","i","j","k","e"," ","b","o","o","d","s","c","h","a","p">>,
      Memorie_van_toelichting |-> <<"M","e","m","o","r","i","e"," ","v","a","n"," ","t","o","e","l","i","c","h","t","i","n","g">>,
      Jaarverslag |-> <<"J","a","a","r","v","e","r","s","l","a","g">>,
      Verslag |-> <<"V","e","r","s","l","a","g">> ]


(***************************************************************************)
(* Bounds of the model.                                                    *)
(***************************************************************************)
\* Segments ("; "-separated) of the titles the classifier is run on
MaxSegments == 2

\* The largest total a server declares when the fetch is checked on its own
MaxTotal == 201

\* Page requests of one fetch that the model tells apart: the request log
\* holds this many, and start offsets from maximum_records * MaxRequests on
\* are all represented by that offset (no server holds a record there)
MaxRequests == 3

\* Whitespace characters added to an identifier to make a lookup argument
MaxPad == 1

\* Lookups in one run of the model, over all processes
MaxLookups == 3

\* Process restarts in one run of the model
MaxRestarts == 1

VARIABLES
    c_pc,               \* classifier run: "call" before get_kamerstuktype_from_title, "returned" after
    c_title,            \* its title argument
    c_record,           \* its record argument (the subrubriek is all it reads)
    c_run,              \* what the run returned and the invocations it made
    pc,                 \* where get_kst_information / koop_sru_api_request_all stands
    start_record,       \* koop_sru_api_request_all: start_record
    records,            \* koop_sru_api_request_all: records, each the position it has on the server
    number_of_records,  \* koop_sru_api_request_all: number_of_records (None before the first response)
    reqs,               \* the startRecord of every page request sent so far by this fetch
    total,              \* server: the numberOfRecords it declares for the query
    honest,             \* server: every page so far held all it could, by offset
    dossiernummer,      \* get_kst_information: dossiernummer after line 224
    ondernummer,        \* get_kst_information: ondernummer after line 225
    proc,               \* the process: "stopped", "running", or "import failed"
    cache,              \* the module global __kamerstuk_information_cache
    file,               \* the file kamerstuk_information.json
    file_at_start,      \* history: the file as it was when the process started
    asked,              \* history: the pair the latest call is about (its arguments without whitespace)
    before,             \* history: cache and file when the lookup in progress was called
    first,              \* history: per key, what its first successful lookup in this process returned
    failed,             \* history: the keys whose latest lookup in this process raised
    last,               \* history: how the latest lookup ended
    lookups,            \* history: lookups called so far
    restarts            \* history: processes started after the first

cvars == <<c_pc, c_title, c_record, c_run>>

fvars == <<pc, start_record, records, number_of_records, reqs, total, honest>>

lvars == <<dossiernummer, ondernummer, proc, cache, file, file_at_start, asked, before, first,
           failed, last, lookups, restarts>>

vars == <<cvars, fvars, lvars>>

(***************************************************************************)
(* get_kamerstuktype_from_title                                            *)
(***************************************************************************)
NoMatch == "no match"

\* title = title.lower(); title = title.replace('0', 'o')
normalize_title(title) == str_replace(str_lower(title), "0", "o")

\* title_split[0]: what an off-by-one index would take as the tail
title_tail_first_segment(title) == str_split(title, <<";", " ">>)[1]

\* title_split = title.split('; '); title_tail = title_split[1], or "" on IndexError
title_tail(title) ==
    LET title_split == str_split(title, <<";", " ">>)
    IN  IF Len(title_split) >= 2 THEN title_split[2] ELSE <<>>

\* record.find(".//overheidwetgeving:subrubriek[...]").text, or "" on AttributeError
opgegeven_kamerstuktype(record) ==
    IF record.subrubriek = None THEN <<>> ELSE record.subrubriek

\* The if statements that read the given type (and, in two of them, the title)
rules_opgegeven(title, opgegeven) ==
    IF opgegeven = hintlit.Brief \/ startswith(title, lit.brief)
    THEN "BRIEF"
    ELSE IF opgegeven = hintlit.Amendement
    THEN "AMENDEMENT"
    ELSE IF opgegeven = hintlit.Motie
    THEN "MOTIE"
    ELSE IF opgegeven = hintlit.Voorstel_van_wet
    THEN "WETSVOORSTEL"
    ELSE IF opgegeven = hintlit.Koninklijke_boodschap \/ startswith(title, lit.koninklijke_boodschap)
    THEN "KONINKLIJKE_BOODSCHAP"
    ELSE IF opgegeven = hintlit.Memorie_van_toelichting
    THEN "MEMORIE_VAN_TOELICHTING"
    ELSE IF opgegeven = hintlit.Jaarverslag
    THEN "JAARVERSLAG"
    ELSE IF opgegeven = hintlit.Verslag
    THEN "VERSLAG"
    ELSE NoMatch

\* The if statements that read the title only
rules_title(title) ==
    IF startswith(title, lit.motie) \/ startswith(title, lit.gewijzigde_motie)
    THEN "MOTIE"
    ELSE IF startswith(title, lit.amendement) \/ startswith(title, lit.gewijzigd_amendement)
    THEN "AMENDEMENT"
    ELSE IF \/ startswith(title, lit.voorstel_van_wet)
            \/ startswith(title, lit.gewijzigd_voorstel_van_wet)
            \/ startswith(title, lit.ontwerp_van_wet)
    THEN "WETSVOORSTEL"
    ELSE IF endswith(title, lit.voorstel_van_wet) \/ endswith(title, lit.gewijzigd_voorstel_van_wet)
    THEN "WETSVOORSTEL"
    ELSE IF \/ startswith(title, lit.advies_afdeling_advisering_raad_van_state)
            \/ startswith(title, lit.advies_raad_van_state)
    THEN "ADVIES_RVS"
    ELSE IF \/ startswith(title, lit.voorlopig_verslag)
            \/ startswith(title, lit.verslag)
            \/ startswith(title, lit.eindverslag)
            \/ startswith(title, lit.nader_voorlopig_verslag)
    THEN "VERSLAG"
    ELSE IF \/ endswith(title, lit.voorlopig_verslag)
            \/ endswith(title, lit.verslag)
            \/ endswith(title, lit.eindverslag)
            \/ startswith(title, lit.nader_voorlopig_verslag)
    THEN "VERSLAG"
    ELSE IF \/ startswith(title, lit.nota_naar_aanleiding_van_het)
            \/ endswith(title, lit.nota_naar_aanleiding_van_het)
    THEN "NOTA_NA_VERSLAG"
    ELSE IF startswith(title, lit.memorie_van_toelichting)
    THEN "MEMORIE_VAN_TOELICHTING"
    ELSE IF endswith(title, lit.memorie_van_toelichting)
    THEN "MEMORIE_VAN_TOELICHTING"
    ELSE IF \/ startswith(title, lit.memorie_van_antwoord)
            \/ startswith(title, lit.nadere_memorie_van_antwoord)
    THEN "MEMORIE_VAN_ANTWOORD"
    ELSE IF \/ endswith(title, lit.memorie_van_antwoord)
            \/ endswith(title, lit.nadere_memorie_van_antwoord)
    THEN "MEMORIE_VAN_ANTWOORD"
    ELSE IF startswith(title, lit.voorlichting_van_de_afdeling_advisering_van_de_raad_van_state)
    THEN "VOORLICHTING_RVS"
    ELSE IF startswith(str_lower(title), lit.jaarverslag)
    THEN "JAARVERSLAG"
    ELSE IF str_contains(str_lower(title), lit.nota_van_wijziging)
    THEN "NOTA_VAN_WIJZIGING"
    ELSE NoMatch

\* The title-only statements tried before the ones that read the given type
match_rules_title_first(title, opgegeven) ==
    LET m == rules_title(title)
    IN  IF m # NoMatch THEN m ELSE rules_opgegeven(title, opgegeven)

\* The whole chain of if statements, in the order of the source
match_rules(title, opgegeven) ==
    LET m == rules_opgegeven(title, opgegeven)
    IN  IF m # NoMatch THEN m ELSE rules_title(title)

\* One invocation after another: the type returned and the invocations made,
\* each with the title it was given (as normalized) and its is_tail flag
RECURSIVE run_get_kamerstuktype_from_title(_, _, _)
run_get_kamerstuktype_from_title(title_arg, record, is_tail) ==
    LET title == normalize_title(title_arg)
        tail  == title_tail(title)
        m     == match_rules(title, opgegeven_kamerstuktype(record))
        this  == [title |-> title, is_tail |-> is_tail]
    IN  IF m # NoMatch
        THEN [type |-> m, calls |-> <<this>>]
        ELSE IF ~is_tail
        THEN LET tail_run == run_get_kamerstuktype_from_title(tail, record, TRUE)
             IN  [type |-> tail_run.type, calls |-> <<this>> \o tail_run.calls]
        ELSE [type |-> "ONBEKEND", calls |-> <<this>>]

get_kamerstuktype_from_title(title, record) ==
    run_get_kamerstuktype_from_title(title, record, FALSE).type

(***************************************************************************)
(* The titles and given types the classifier is run on: a first segment    *)
(* (a phrase, alone or with a word before or after it) followed by up to   *)
(* MaxSegments - 1 further segments, each after a "; ".                    *)
(***************************************************************************)

Range(f) == {f[k] : k \in DOMAIN f}

txt_M0tie == <<"M","0","t","i","e">>

txt_Regeling_van_werkzaamheden == <<"R","e","g","e","l","i","n","g"," ","v","a","n"," ","w","e","r","k","z","a","a","m","h","e","d","e","n">>

txt_van_het_lid_X == <<"v","a","n"," ","h","e","t"," ","l","i","d"," ","X">>

Phrases ==
    Range(KamerstukType) \cup Range(lit)
        \cup {txt_M0tie, txt_Regeling_van_werkzaamheden, str_lower(KamerstukType.GELEIDENDE_BRIEF)}

FirstSegments ==
    Phrases \cup {<<"x", " ">> \o p : p \in Phrases} \cup {p \o <<" ", "x">> : p \in Phrases}

TailSegments ==
    { KamerstukType.MOTIE \o <<" ">> \o txt_van_het_lid_X,
      txt_M0tie,
      lit.verslag,
      KamerstukType.NOTA_VAN_WIJZIGING,
      txt_van_het_lid_X,
      <<>> }

RECURSIVE TitlesOf(_)
TitlesOf(n) ==
    IF n <= 1
    THEN FirstSegments
    ELSE {t \o <<";", " ">> \o s : t \in TitlesOf(n - 1), s \in TailSegments}

Titles == UNION {TitlesOf(n) : n \in 1..MaxSegments}

\* The subrubriek of the record: absent, or one of the given types the
\* program tests for, or another text
Hints == {None, <<>>, KamerstukType.NOTA_VAN_WIJZIGING} \cup Range(hintlit)

(***************************************************************************)
(* koop_sru_api_request_all, one page request at a time. The server holds  *)
(* `total` records for the query, at positions 0 .. total - 1, and answers *)
(* a request for maximum_records records from start_record on with some   *)
(* of the records it holds there.                                          *)
(***************************************************************************)
maximum_records == 100

Min(a, b) == IF a <= b THEN a ELSE b

Max(a, b) == IF a >= b THEN a ELSE b

\* Offsets from here on are told apart no more (see MaxRequests)
MaxOffset == maximum_records * MaxRequests

\* What the server can put in the page asked for at `start`
available(start) == Max(0, Min(maximum_records, total - start))

\* The sizes of page the server may answer with: all it has there, or less
PageSizes(start) == {0, Min(1, available(start)), available(start)}

\* xml.findall("sru:records/sru:record"): the records at start .. start + k - 1
page(start, k) == [i \in 1..k |-> start + i - 1]

\* start_record + maximum_records + 1: the next page taken to start one further
next_start_record_one_based(start) == start + maximum_records + 1

\* start_record = start_record + maximum_records
next_start_record(start) == start + maximum_records

\* while len(records) < number_of_records
more_records_needed(recs, n) == Len(recs) < n

\* The state koop_sru_api_request_all starts in
fetch_start ==
    /\ pc' = "first request"
    /\ start_record' = 0
    /\ records' = <<>>
    /\ number_of_records' = 0
    /\ reqs' = <<>>
    /\ honest' = TRUE

\* koop_sru_api_request: requests.get(...), before the loop and in it
Request ==
    /\ pc \in {"first request", "request"}
    /\ pc' = IF pc = "first request" THEN "await first" ELSE "await"
    /\ reqs' = IF Len(reqs) < MaxRequests THEN Append(reqs, start_record) ELSE reqs
    /\ UNCHANGED <<start_record, records, number_of_records, total, honest>>
    /\ UNCHANGED <<cvars, lvars>>

\* koop_sru_api_request: resp.status_code != 200 (or the request timed out): raise
ReceiveError ==
    /\ pc \in {"await first", "await"}
    /\ pc' = "raised"
    /\ UNCHANGED <<start_record, records, number_of_records, reqs, total, honest>>
    /\ UNCHANGED <<cvars, lvars>>

\* A page arrives with status 200: the records are added, the first page
\* sets number_of_records, and the loop goes on or koop_sru_api_request_all returns
ReceivePage ==
    /\ pc \in {"await first", "await"}
    /\ \E k \in PageSizes(start_record) :
        LET recs == records \o page(start_record, k)
            n    == IF pc = "await first" THEN total ELSE number_of_records
        IN  /\ records' = recs
            /\ number_of_records' = n
            /\ honest' = (honest /\ k = available(start_record))
            /\ IF more_records_needed(recs, n)
               THEN /\ pc' = "request"
                    /\ start_record' = Min(next_start_record(start_record), MaxOffset)
               ELSE /\ pc' = "fetched"
                    /\ UNCHANGED start_record
    /\ UNCHANGED <<reqs, total>>
    /\ UNCHANGED <<cvars, lvars>>

(***************************************************************************)
(* The records a server returns, as the fields the program reads from      *)
(* them: the text of the element, or None when the record has no such      *)
(* element.                                                                *)
(***************************************************************************)
txt_sgd == <<"s","g","d">>

txt_officielepublicaties == <<"o","f","f","i","c","i","e","l","e","p","u","b","l","i","c","a","t","i","e","s">>

txt_Tweede_Kamer == <<"T","w","e","e","d","e"," ","K","a","m","e","r"," ","d","e","r"," ","S","t","a","t","e","n","-","G","e","n","e","r","a","a","l">>

txt_Eerste_Kamer == <<"E","e","r","s","t","e"," ","K","a","m","e","r"," ","d","e","r"," ","S","t","a","t","e","n","-","G","e","n","e","r","a","a","l">>

RecordFields ==
    {"product_area", "dossiernummer", "ondernummer", "dcterms_title", "dcterms_description",
     "vergaderjaar", "creator", "dossiertitel", "documenttitel", "subrubriek"}

\* A record of the current product area with every field the program reads
FullRecord ==
    [ product_area        |-> txt_officielepublicaties,
      dossiernummer       |-> <<"3", "6">>,
      ondernummer         |-> <<"4">>,
      dcterms_title       |-> txt_Regeling_van_werkzaamheden \o <<";", " ">> \o KamerstukType.MOTIE,
      dcterms_description |-> KamerstukType.NOTA_NA_VERSLAG,
      vergaderjaar        |-> <<"2", "0", "2", "4">>,
      creator             |-> txt_Tweede_Kamer,
      dossiertitel        |-> txt_Regeling_van_werkzaamheden,
      documenttitel       |-> KamerstukType.BRIEF,
      subrubriek          |-> None ]

\* The record r without the elements named in `missing`
without(r, missing) == [f \in RecordFields |-> IF f \in missing THEN None ELSE r[f]]

\* What a server may put in the first record of a lookup: the full record,
\* current or old style, or one that lacks what the program needs
ServerRecords ==
    {without(FullRecord, m) :
        m \in { {}, {"documenttitel", "dcterms_title", "dcterms_description"},
                {"vergaderjaar"}, {"product_area"} }}
    \cup {[FullRecord EXCEPT !.product_area = a, !.creator = txt_Eerste_Kamer] : a \in {txt_sgd, <<"x">>}}

(***************************************************************************)
(* get_kst_information after the fetch: the fields of the first record,    *)
(* the Kamerstuk Info, the insert into the cache and the save.             *)
(***************************************************************************)
Fail == [raised |-> TRUE]

\* record.find(path).text for every path in `fields`: AttributeError if one finds nothing
all_found(record, fields) == \A f \in fields : record[f] # None

\* The fields read from the record, per product area
extract(record) ==
    IF record.product_area = None
    THEN Fail
    ELSE IF record.product_area = txt_sgd
    THEN IF all_found(record, {"dossiernummer", "ondernummer", "dcterms_title",
                               "dcterms_description", "vergaderjaar", "creator"})
         THEN [ raised        |-> FALSE,
                dossiertitel  |-> record.dcterms_title,
                documenttitel |-> record.dcterms_description,
                vergaderjaar  |-> record.vergaderjaar,
                creator       |-> record.creator ]
         ELSE Fail
    ELSE IF record.product_area = txt_officielepublicaties
    THEN IF /\ all_found(record, {"dossiernummer", "ondernummer", "dossiertitel",
                                  "vergaderjaar", "creator"})
            /\ \E f \in {"documenttitel", "dcterms_title", "dcterms_description"} : record[f] # None
         THEN [ raised        |-> FALSE,
                dossiertitel  |-> record.dossiertitel,
                documenttitel |-> IF record.documenttitel # None THEN record.documenttitel
                                  ELSE IF record.dcterms_title # None THEN record.dcterms_title
                                  ELSE record.dcterms_description,
                vergaderjaar  |-> record.vergaderjaar,
                creator       |-> record.creator ]
         ELSE Fail
    \* neither branch assigns creator: the read of it at line 262 raises
    ELSE Fail

kamer(creator) ==
    IF creator = txt_Tweede_Kamer THEN <<"I", "I">>
    ELSE IF creator = txt_Eerste_Kamer THEN <<"I">>
    ELSE <<"?", "?">>

kst_info(d, s, fields, record) ==
    [ dossiernummer |-> d,
      ondernummer   |-> s,
      vergaderjaar  |-> fields.vergaderjaar,
      kamer         |-> kamer(fields.creator),
      kamerstuktype |-> KamerstukType[get_kamerstuktype_from_title(fields.documenttitel, record)],
      documenttitel |-> fields.documenttitel,
      dossiertitel  |-> fields.dossiertitel ]

\* {}
EmptyDict == [x \in {} |-> x]

\* dossiernummer in cache and ondernummer in cache[dossiernummer]
cache_hit(c, d, s) == d \in DOMAIN c /\ s \in DOMAIN c[d]

\* cache[dossiernummer][ondernummer] = kst_info, the inner dict made when the dossier is new
cache_insert(c, d, s, info) ==
    LET inner == IF d \in DOMAIN c THEN c[d] ELSE EmptyDict
        put   == [x \in DOMAIN inner \cup {s} |-> IF x = s THEN info ELSE inner[x]]
    IN  [x \in DOMAIN c \cup {d} |-> IF x = d THEN put ELSE c[x]]

\* __save_kamerstuk_information_cache: the file is opened for writing (and so
\* emptied) and holds the JSON text of the whole cache. The cache maps strings
\* to dicts of strings to dicts of strings, which json.load gives back as dumped.
save_kamerstuk_information_cache(c) == [kind |-> "json", data |-> c]

\* __load_kamerstuk_information_cache, called with the module global c: open()
\* raises when there is no file; json.load's result, or {} on a
\* JSONDecodeError, is assigned to a name that is local to the function (it has
\* no global statement), so the module global is what it was.
load_kamerstuk_information_cache(c, f) ==
    LET local == IF f.kind = "json" THEN f.data ELSE EmptyDict
    IN  [raised |-> f.kind = "absent", local |-> local, cache |-> c]

\* As complete_lookup, but a query without records is memoized as a miss
complete_lookup_memoizing_miss(c, f, d, s, recs, record) ==
    IF Len(recs) = 0
    THEN [raised |-> TRUE, cache |-> cache_insert(c, d, s, Fail), file |-> f]
    ELSE LET fields == extract(record)
         IN  IF fields.raised
             THEN [raised |-> TRUE, cache |-> c, file |-> f]
             ELSE LET info == kst_info(d, s, fields, record)
                      c2   == cache_insert(c, d, s, info)
                  IN  [raised |-> FALSE, value |-> info, cache |-> c2,
                       file |-> save_kamerstuk_information_cache(c2)]

\* From records[0] to the return: `record` is what the server put in
\* records[0]. The outcome, and the cache and the file it leaves.
complete_lookup(c, f, d, s, recs, record) ==
    IF Len(recs) = 0
    THEN [raised |-> TRUE, cache |-> c, file |-> f]
    ELSE LET fields == extract(record)
         IN  IF fields.raised
             THEN [raised |-> TRUE, cache |-> c, file |-> f]
             ELSE LET info == kst_info(d, s, fields, record)
                      c2   == cache_insert(c, d, s, info)
                  IN  [raised |-> FALSE, value |-> info, cache |-> c2,
                       file |-> save_kamerstuk_information_cache(c2)]

(***************************************************************************)
(* The arguments of get_kst_information and their normalization.           *)
(***************************************************************************)
\* Characters that \s matches
Whitespace == {" ", "\t"}

\* str.strip(): whitespace removed at both ends only
RECURSIVE str_strip(_)
str_strip(s) ==
    IF s # <<>> /\ s[1] \in Whitespace THEN str_strip(Tail(s))
    ELSE IF s # <<>> /\ s[Len(s)] \in Whitespace THEN str_strip(SubSeq(s, 1, Len(s) - 1))
    ELSE s

\* re_whitespace.sub("", s): every maximal run of whitespace replaced by ""
RECURSIVE re_whitespace_sub(_)
re_whitespace_sub(s) ==
    IF \A i \in 1..Len(s) : s[i] \notin Whitespace
    THEN s
    ELSE LET from == CHOOSE i \in 1..Len(s) :
                        /\ s[i] \in Whitespace
                        /\ \A j \in 1..(i - 1) : s[j] \notin Whitespace
             to   == CHOOSE i \in from..Len(s) :
                        /\ \A j \in from..i : s[j] \in Whitespace
                        /\ i = Len(s) \/ s[i + 1] \notin Whitespace
         IN  SubSeq(s, 1, from - 1) \o re_whitespace_sub(SubSeq(s, to + 1, Len(s)))

\* The identifiers looked up, and the arguments that denote them: an
\* identifier with up to MaxPad whitespace characters put anywhere in it
Identifiers == {<<"4">>, <<"3", "6">>}

RECURSIVE Padded(_)
Padded(n) ==
    IF n = 0
    THEN Identifiers
    ELSE Padded(n - 1) \cup
         UNION {{SubSeq(s, 1, i) \o <<w>> \o SubSeq(s, i + 1, Len(s)) :
                    i \in 0..Len(s), w \in Whitespace} : s \in Padded(n - 1)}

Arguments == Padded(MaxPad)

\* The argument with all whitespace removed, and the pair a call is about
WithoutWhitespace(s) == SelectSeq(s, LAMBDA ch : ch \notin Whitespace)

KeyOf(a) == <<WithoutWhitespace(a.dossiernummer), WithoutWhitespace(a.ondernummer)>>

(***************************************************************************)
(* The process: the import of the module, the calls of                     *)
(* get_kst_information, one at a time, and the end of the process.         *)
(***************************************************************************)
\* The totals a server declares for the query of a lookup
LookupTotals == {0, maximum_records + 1}

\* How a lookup ended: "returned" or "raised" ("pending" while it runs, "none"
\* before the first of the process), the value returned, the page requests it
\* sent, whether it inserted into the cache, whether its arguments held whitespace
NoLookup == [outcome |-> "none", value |-> {}, requests |-> 0, inserted |-> FALSE, padded |-> FALSE]

is_padded(a) ==
    \E x \in {a.dossiernummer, a.ondernummer} : \E i \in 1..Len(x) : x[i] \in Whitespace

\* The file before the program ever ran: none, one that is not JSON (an
\* empty file, say), or one holding {}
InitialFiles ==
    { [kind |-> "absent", data |-> EmptyDict],
      [kind |-> "garbage", data |-> EmptyDict],
      [kind |-> "json", data |-> EmptyDict] }

ClassifierIdle ==
    /\ c_pc = "returned"
    /\ c_title = <<>>
    /\ c_record = [subrubriek |-> None]
    /\ c_run = [type |-> NoMatch, calls |-> <<>>]

FetchIdle ==
    /\ pc = "idle"
    /\ start_record = 0
    /\ records = <<>>
    /\ number_of_records = 0
    /\ reqs = <<>>
    /\ total = 0
    /\ honest = TRUE

LookupIdle ==
    /\ asked = <<<<>>, <<>>>>
    /\ dossiernummer = <<>>
    /\ ondernummer = <<>>
    /\ cache = EmptyDict
    /\ file_at_start = [kind |-> "absent", data |-> EmptyDict]
    /\ before = [cache |-> EmptyDict, file |-> [kind |-> "absent", data |-> EmptyDict],
                 known |-> {}, retry |-> FALSE]
    /\ first = EmptyDict
    /\ failed = {}
    /\ last = NoLookup
    /\ lookups = 0
    /\ restarts = 0

Init ==
    /\ ClassifierIdle
    /\ FetchIdle
    /\ LookupIdle
    /\ proc = "stopped"
    /\ file \in InitialFiles

\* The module is imported: line 21 binds the global to {}, line 293 loads
Startup ==
    /\ proc = "stopped"
    /\ LET loaded == load_kamerstuk_information_cache(EmptyDict, file)
       IN  /\ proc' = IF loaded.raised THEN "import failed" ELSE "running"
           /\ cache' = loaded.cache
    /\ file_at_start' = file
    /\ first' = EmptyDict
    /\ failed' = {}
    /\ last' = NoLookup
    /\ UNCHANGED <<dossiernummer, ondernummer, file, asked, before, lookups, restarts>>
    /\ UNCHANGED <<cvars, fvars>>

\* The process ends between two lookups; the next one starts from the file
Exit ==
    /\ proc = "running"
    /\ pc = "idle"
    /\ restarts < MaxRestarts
    /\ proc' = "stopped"
    /\ restarts' = restarts + 1
    /\ UNCHANGED <<dossiernummer, ondernummer, cache, file, file_at_start, asked, before, first,
                   failed, last, lookups>>
    /\ UNCHANGED <<cvars, fvars>>

\* What a call notes for later: the cache and the file as they are, what the
\* first successful lookup of the pair returned, whether its latest lookup raised
noted(a) ==
    [ cache |-> cache,
      file  |-> file,
      known |-> IF KeyOf(a) \in DOMAIN first THEN {first[KeyOf(a)]} ELSE {},
      retry |-> KeyOf(a) \in failed ]

\* get_kst_information(a.dossiernummer, a.ondernummer), the pair is in the cache
CallHit ==
    /\ proc = "running"
    /\ pc = "idle"
    /\ lookups < MaxLookups
    /\ \E a \in [dossiernummer : Arguments, ondernummer : Arguments] :
        LET d == re_whitespace_sub(a.dossiernummer)
            s == re_whitespace_sub(a.ondernummer)
        IN  /\ cache_hit(cache, d, s)
            /\ asked' = KeyOf(a)
            /\ dossiernummer' = d
            /\ ondernummer' = s
            /\ before' = noted(a)
            /\ last' = [outcome |-> "returned", value |-> {cache[d][s]}, requests |-> 0,
                        inserted |-> FALSE, padded |-> is_padded(a)]
            /\ first' = IF KeyOf(a) \in DOMAIN first
                        THEN first
                        ELSE [k \in DOMAIN first \cup {KeyOf(a)} |->
                                IF k = KeyOf(a) THEN cache[d][s] ELSE first[k]]
            /\ failed' = failed \ {KeyOf(a)}
    /\ lookups' = lookups + 1
    /\ UNCHANGED fvars
    /\ UNCHANGED <<proc, cache, file, file_at_start, restarts>>
    /\ UNCHANGED cvars

\* get_kst_information(a.dossiernummer, a.ondernummer), the pair is not in
\* the cache: koop_sru_api_request_all is called
CallMiss ==
    /\ proc = "running"
    /\ pc = "idle"
    /\ lookups < MaxLookups
    /\ \E a \in [dossiernummer : Arguments, ondernummer : Arguments] :
        LET d == re_whitespace_sub(a.dossiernummer)
            s == re_whitespace_sub(a.ondernummer)
        IN  /\ ~cache_hit(cache, d, s)
            /\ asked' = KeyOf(a)
            /\ dossiernummer' = d
            /\ ondernummer' = s
            /\ before' = noted(a)
            /\ last' = [NoLookup EXCEPT !.outcome = "pending", !.padded = is_padded(a)]
    /\ lookups' = lookups + 1
    /\ fetch_start
    /\ total' \in LookupTotals
    /\ UNCHANGED <<proc, cache, file, file_at_start, first, failed, restarts>>
    /\ UNCHANGED cvars

\* get_kst_information is left: the locals of the fetch are gone
fetch_locals_dropped ==
    /\ pc' = "idle"
    /\ start_record' = 0
    /\ records' = <<>>
    /\ number_of_records' = 0
    /\ reqs' = <<>>
    /\ total' = 0
    /\ honest' = TRUE

\* koop_sru_api_request raised: get_kst_information raises with it
Propagate ==
    /\ proc = "running"
    /\ pc = "raised"
    /\ last' = [last EXCEPT !.outcome = "raised", !.requests = Len(reqs)]
    /\ failed' = failed \cup {asked}
    /\ fetch_locals_dropped
    /\ UNCHANGED <<dossiernummer, ondernummer, proc, cache, file, file_at_start, asked, before,
                   first, lookups, restarts>>
    /\ UNCHANGED cvars

\* koop_sru_api_request_all returned: the rest of get_kst_information
Finish ==
    /\ proc = "running"
    /\ pc = "fetched"
    /\ \E record \in ServerRecords :
        LET r == complete_lookup(cache, file, dossiernummer, ondernummer, records, record)
        IN  /\ cache' = r.cache
            /\ file' = r.file
            /\ last' = [last EXCEPT !.outcome = IF r.raised THEN "raised" ELSE "returned",
                                     !.value = IF r.raised THEN {} ELSE {r.value},
                                     !.requests = Len(reqs),
                                     !.inserted = ~r.raised]
            /\ first' = IF r.raised \/ asked \in DOMAIN first
                        THEN first
                        ELSE [k \in DOMAIN first \cup {asked} |->
                                IF k = asked THEN r.value ELSE first[k]]
            /\ failed' = IF r.raised THEN failed \cup {asked} ELSE failed \ {asked}
    /\ fetch_locals_dropped
    /\ UNCHANGED <<dossiernummer, ondernummer, proc, file_at_start, asked, before, lookups, restarts>>
    /\ UNCHANGED cvars

Next ==
    \/ Startup
    \/ Exit
    \/ CallHit
    \/ CallMiss
    \/ Request
    \/ ReceiveError
    \/ ReceivePage
    \/ Propagate
    \/ Finish

Spec == Init /\ [][Next]_vars

(***************************************************************************)
(* koop_sru_api_request_all on its own, for every total up to MaxTotal.    *)
(***************************************************************************)
FetchInit ==
    /\ ClassifierIdle
    /\ LookupIdle
    /\ proc = "running"
    /\ file = [kind |-> "json", data |-> EmptyDict]
    /\ pc = "first request"
    /\ start_record = 0
    /\ records = <<>>
    /\ number_of_records = 0
    /\ reqs = <<>>
    /\ honest = TRUE
    /\ total \in 0..MaxTotal

FetchNext == Request \/ ReceiveError \/ ReceivePage

FetchSpec == FetchInit /\ [][FetchNext]_vars

\* The program takes its next step and every request is answered (or times
\* out, which raises as a failed request does)
FairFetchSpec == FetchSpec /\ WF_vars(FetchNext)

(***************************************************************************)
(* Running the classifier on one title and record.                         *)
(***************************************************************************)
NotRun == [type |-> NoMatch, calls |-> <<>>]

ClassifyInit ==
    /\ c_pc = "call"
    /\ c_title \in Titles
    /\ c_record \in [subrubriek : Hints]
    /\ c_run = NotRun
    /\ FetchIdle
    /\ LookupIdle
    /\ proc = "stopped"
    /\ file = [kind |-> "absent", data |-> EmptyDict]

Classify ==
    /\ c_pc = "call"
    /\ c_pc' = "returned"
    /\ c_run' = run_get_kamerstuktype_from_title(c_title, c_record, FALSE)
    /\ UNCHANGED <<c_title, c_record>>
    /\ UNCHANGED <<fvars, lvars>>

\* The caller passes the next title
ClassifyAgain ==
    /\ c_pc = "returned"
    /\ c_pc' = "call"
    /\ c_title' \in FirstSegments
    /\ c_run' = NotRun
    /\ UNCHANGED c_record
    /\ UNCHANGED <<fvars, lvars>>

ClassifyNext == Classify \/ ClassifyAgain

ClassifySpec == ClassifyInit /\ [][ClassifyNext]_vars

(***************************************************************************)
(* The rules a to u of the classification, as the specification lists      *)
(* them: rule r matches normalized title t and given type h.               *)
(***************************************************************************)
RuleCategory ==
    << "BRIEF", "AMENDEMENT", "MOTIE", "WETSVOORSTEL", "KONINKLIJKE_BOODSCHAP",
       "MEMORIE_VAN_TOELICHTING", "JAARVERSLAG", "VERSLAG", "MOTIE", "AMENDEMENT",
       "WETSVOORSTEL", "WETSVOORSTEL", "ADVIES_RVS", "VERSLAG", "VERSLAG",
       "NOTA_NA_VERSLAG", "MEMORIE_VAN_TOELICHTING", "MEMORIE_VAN_ANTWOORD",
       "VOORLICHTING_RVS", "JAARVERSLAG", "NOTA_VAN_WIJZIGING" >>

Rule == [ a |-> 1, b |-> 2, c |-> 3, d |-> 4, e |-> 5, f |-> 6, g |-> 7, h |-> 8, i |-> 9,
          j |-> 10, k |-> 11, l |-> 12, m |-> 13, n |-> 14, o |-> 15, p |-> 16, q |-> 17,
          r |-> 18, s |-> 19, t |-> 20, u |-> 21 ]

RuleMatches(r, t, h) ==
    CASE r = Rule.a -> h = hintlit.Brief \/ startswith(t, lit.brief)
      [] r = Rule.b -> h = hintlit.Amendement
      [] r = Rule.c -> h = hintlit.Motie
      [] r = Rule.d -> h = hintlit.Voorstel_van_wet
      [] r = Rule.e -> h = hintlit.Koninklijke_boodschap \/ startswith(t, lit.koninklijke_boodschap)
      [] r = Rule.f -> h = hintlit.Memorie_van_toelichting
      [] r = Rule.g -> h = hintlit.Jaarverslag
      [] r = Rule.h -> h = hintlit.Verslag
      [] r = Rule.i -> \E x \in {lit.motie, lit.gewijzigde_motie} : startswith(t, x)
      [] r = Rule.j -> \E x \in {lit.amendement, lit.gewijzigd_amendement} : startswith(t, x)
      [] r = Rule.k -> \E x \in {lit.voorstel_van_wet, lit.gewijzigd_voorstel_van_wet, lit.ontwerp_van_wet} :
                            startswith(t, x)
      [] r = Rule.l -> \E x \in {lit.voorstel_van_wet, lit.gewijzigd_voorstel_van_wet} : endswith(t, x)
      [] r = Rule.m -> \E x \in {lit.advies_afdeling_advisering_raad_van_state, lit.advies_raad_van_state} :
                            startswith(t, x)
      [] r = Rule.n -> \E x \in {lit.voorlopig_verslag, lit.verslag, lit.eindverslag, lit.nader_voorlopig_verslag} :
                            startswith(t, x)
      [] r = Rule.o -> \/ \E x \in {lit.voorlopig_verslag, lit.verslag, lit.eindverslag} : endswith(t, x)
                       \/ startswith(t, lit.nader_voorlopig_verslag)
      [] r = Rule.p -> \/ startswith(t, lit.nota_naar_aanleiding_van_het)
                       \/ endswith(t, lit.nota_naar_aanleiding_van_het)
      [] r = Rule.q -> \/ startswith(t, lit.memorie_van_toelichting)
                       \/ endswith(t, lit.memorie_van_toelichting)
      [] r = Rule.r -> \E x \in {lit.memorie_van_antwoord, lit.nadere_memorie_van_antwoord} :
                            startswith(t, x) \/ endswith(t, x)
      [] r = Rule.s -> startswith(t, lit.voorlichting_van_de_afdeling_advisering_van_de_raad_van_state)
      [] r = Rule.t -> startswith(t, lit.jaarverslag)
      [] r = Rule.u -> str_contains(t, lit.nota_van_wijziging)

AnyRuleMatches(t, h) == \E r \in DOMAIN RuleCategory : RuleMatches(r, t, h)

EarliestRule(t, h) ==
    CHOOSE r \in DOMAIN RuleCategory :
        /\ RuleMatches(r, t, h)
        /\ \A q \in 1..(r - 1) : ~RuleMatches(q, t, h)

\* The given type of the record, empty when the record has none
GivenType(record) == IF record.subrubriek = None THEN <<>> ELSE record.subrubriek

\* The segment after the first "; " of t: from there to the next "; " or to
\* the end; empty when t holds no "; "
SegmentAfterFirstSeparator(t) ==
    LET sep   == <<";", " ">>
        start == str_find(t, sep)
        rest  == SubSeq(t, start + Len(sep), Len(t))
        next  == str_find(rest, sep)
    IN  IF start = 0 THEN <<>>
        ELSE IF next = 0 THEN rest
        ELSE SubSeq(rest, 1, next - 1)

(***************************************************************************)
(* C7: for every title and given type, the classifier returns the category *)
(* of the earliest rule, in the order a to u, that matches the given type  *)
(* or the normalized title; a later matching rule never overrides an       *)
(* earlier one. A title starting with "brief" yields BRIEF whatever the    *)
(* given type; a given type Amendement, Motie or Voorstel van wet decides  *)
(* the type unless rule a matches.                                         *)
(***************************************************************************)
C7_ClassificationPriority ==
    LET t == normalize_title(c_title)
        h == GivenType(c_record)
    IN  c_pc = "returned" =>
            /\ AnyRuleMatches(t, h) => c_run.type = RuleCategory[EarliestRule(t, h)]
            /\ startswith(t, lit.brief) => c_run.type = "BRIEF"
            /\ ~RuleMatches(Rule.a, t, h) =>
                    /\ h = hintlit.Amendement => c_run.type = "AMENDEMENT"
                    /\ h = hintlit.Motie => c_run.type = "MOTIE"
                    /\ h = hintlit.Voorstel_van_wet => c_run.type = "WETSVOORSTEL"

\* A run in which a rule that reads the given type and a later rule of
\* another category that reads the title both match, and the earlier one won
C7_Witness ==
    LET t == normalize_title(c_title)
        h == GivenType(c_record)
    IN  /\ c_pc = "returned"
        /\ h = hintlit.Amendement
        /\ RuleMatches(Rule.i, t, h)
        /\ c_title # t
        /\ c_run.type = "AMENDEMENT"

(***************************************************************************)
(* C8: the classifier always returns and makes at most one recursive call. *)
(* When no rule matches on the first pass it returns what the same rules   *)
(* give on the tail (the segment after the first "; " of the normalized    *)
(* title, empty when there is none); a tail pass in which no rule matches  *)
(* returns ONBEKEND without recursing again. ONBEKEND is returned only     *)
(* when no rule matches on the full title and none on the tail.            *)
(***************************************************************************)
C8_ClassificationFallback ==
    LET t    == normalize_title(c_title)
        h    == GivenType(c_record)
        tail == SegmentAfterFirstSeparator(t)
    IN  c_pc = "returned" =>
            /\ c_run.type \in DOMAIN KamerstukType
            /\ Len(c_run.calls) \in {1, 2}
            /\ c_run.calls[1] = [title |-> t, is_tail |-> FALSE]
            /\ AnyRuleMatches(t, h) => Len(c_run.calls) = 1
            /\ ~AnyRuleMatches(t, h) =>
                    /\ c_run.calls = << [title |-> t, is_tail |-> FALSE],
                                        [title |-> tail, is_tail |-> TRUE] >>
                    /\ c_run.type = IF AnyRuleMatches(tail, h)
                                    THEN RuleCategory[EarliestRule(tail, h)]
                                    ELSE "ONBEKEND"
            /\ c_run.type = "ONBEKEND" => ~AnyRuleMatches(t, h) /\ ~AnyRuleMatches(tail, h)

\* A run in which no rule matched the full title and the tail decided the type
C8_Witness ==
    LET t == normalize_title(c_title)
        h == GivenType(c_record)
    IN  /\ c_pc = "returned"
        /\ ~AnyRuleMatches(t, h)
        /\ Len(c_run.calls) = 2
        /\ c_run.calls[2].title # <<>>
        /\ c_run.type = "MOTIE"

(***************************************************************************)
(* C9: for every KamerstukType value the classifier can return,            *)
(* classifying a title equal to that type's own display string, with no    *)
(* given type, returns that same type; "Nota naar aanleiding van het       *)
(* verslag" yields NOTA_NA_VERSLAG and "Jaarverslag" yields JAARVERSLAG.   *)
(***************************************************************************)
ReturnableTypes == Range(RuleCategory) \cup {"ONBEKEND"}

C9_LabelRoundTrip ==
    \A k \in ReturnableTypes :
        (/\ c_pc = "returned"
         /\ c_title = KamerstukType[k]
         /\ GivenType(c_record) = <<>>) => c_run.type = k

(***************************************************************************)
(* C1: after a lookup of a pair has succeeded, every later lookup in the   *)
(* same process whose arguments are equal to the first after all           *)
(* whitespace is removed sends no request and returns the very Kamerstuk   *)
(* Info the first call returned, whatever lookups happened in between.     *)
(***************************************************************************)
C1_MemoizationIdempotence ==
    (last.outcome # "none" /\ before.known # {}) =>
        /\ last.outcome = "returned"
        /\ last.requests = 0
        /\ last.value = before.known
        /\ pc = "idle"

\* The third lookup of a process, with whitespace in its arguments, is of a
\* pair looked up before, after which another pair was looked up
C1_Witness ==
    /\ last.outcome = "returned"
    /\ before.known # {}
    /\ last.padded
    /\ lookups = MaxLookups
    /\ Cardinality(DOMAIN first) = 2
    /\ last.requests = 0

(***************************************************************************)
(* C3: a lookup that fails (a page request without status 200, on the      *)
(* first page or a later one; no record; a mandatory field absent) raises, *)
(* returns nothing, leaves the cache and the file exactly as they were     *)
(* before it, and a later lookup of the same pair sends requests again.    *)
(***************************************************************************)
C3_FailedLookupNotCached ==
    /\ last.outcome \in {"pending", "raised"} =>
            /\ cache = before.cache
            /\ file = before.file
            /\ last.value = {}
            /\ ~cache_hit(cache, asked[1], asked[2])
    /\ \A k \in failed : ~cache_hit(cache, k[1], k[2])
    /\ (before.retry /\ last.outcome \in {"returned", "raised"}) => last.requests >= 1

\* A pair whose lookup raised is looked up again, with something in the
\* cache, and the lookup raises on a page after the first
C3_Witness ==
    /\ last.outcome = "raised"
    /\ before.retry
    /\ last.requests >= 2
    /\ cache # EmptyDict
    /\ pc = "idle"

(***************************************************************************)
(* C4: if the cache file holds valid JSON with an entry for a pair when    *)
(* the process starts, then after startup the cache holds that entry, and  *)
(* the first lookup of the pair in the process is a hit that returns the   *)
(* stored value without a request.                                         *)
(***************************************************************************)
\* The pairs a cache (in memory or in the file) holds an entry for
entries(c) == UNION {{<<d, s>> : s \in DOMAIN c[d]} : d \in DOMAIN c}

C4_CacheLoadedAtStart ==
    (proc = "running" /\ file_at_start.kind = "json") =>
        /\ \A k \in entries(file_at_start.data) :
                cache_hit(cache, k[1], k[2])
        /\ (asked \in entries(file_at_start.data) /\ last.outcome # "none") =>
                /\ last.outcome = "returned"
                /\ last.requests = 0

(***************************************************************************)
(* C5: when a lookup that inserted a new entry returns, the file holds     *)
(* that entry together with every entry it held before the insert, those   *)
(* written by earlier processes included: no entry once persisted is lost. *)
(***************************************************************************)
C5_PersistedCacheOnlyGrows ==
    (last.outcome = "returned" /\ last.inserted) =>
        /\ file.kind = "json"
        /\ asked \in entries(file.data)
        /\ {file.data[asked[1]][asked[2]]} = last.value
        /\ \A k \in entries(before.file.data) :
                /\ k \in entries(file.data)
                /\ k # asked => file.data[k[1]][k[2]] = before.file.data[k[1]][k[2]]

(***************************************************************************)
(* C6: whenever loading the cache at process start fails, because the file *)
(* cannot be opened or read (it does not exist yet, say) or because it     *)
(* does not hold valid JSON, an empty cache is substituted and startup     *)
(* completes without raising.                                              *)
(***************************************************************************)
C6_StartupNeverFails ==
    /\ proc # "import failed"
    /\ (proc = "running" /\ file_at_start.kind # "json" /\ last.outcome = "none") =>
            cache = EmptyDict

(***************************************************************************)
(* C2: against a server that declares N records and serves them by offset  *)
(* in full pages of maximum_records, koop_sru_api_request_all sends page   *)
(* requests with the start offsets 0, P, 2P, ... in that order, exactly    *)
(* ceil(N / P) of them when N > P, and returns exactly the N records in    *)
(* the order the pages arrived, none missing, repeated or out of place.    *)
(***************************************************************************)
pages_needed(n) == (n + maximum_records - 1) \div maximum_records

C2_PaginatedFetch ==
    honest =>
        /\ \A i \in 1..Len(reqs) : reqs[i] = (i - 1) * maximum_records
        /\ \A i \in 1..Len(records) : records[i] = i - 1
        /\ Len(records) <= total
        /\ Len(reqs) <= Max(1, pages_needed(total))
        /\ (pc = "fetched" /\ total > maximum_records) =>
                /\ Len(reqs) = pages_needed(total)
                /\ Len(records) = total

\* A fetch of three pages, the last of them short, has returned
C2_Witness ==
    /\ pc = "fetched"
    /\ honest
    /\ total = 2 * maximum_records + 1
    /\ Len(reqs) = 3
    /\ Len(records) = total

(***************************************************************************)
(* C10: when every page request succeeds, koop_sru_api_request_all returns *)
(* after finitely many requests, whatever total the server declares and    *)
(* however many records it puts in each page, short and empty pages        *)
(* included: a fetch ends, by returning or by a failed request.            *)
(***************************************************************************)
C10_PaginationTerminates == <>(pc \in {"fetched", "raised"})
====
